---- MODULE Spec2Model ----
(***************************************************************************)
(* FormGuard: a client-side form validation library.                       *)
(*                                                                         *)
(* The model has two parts.  The validators of src/src/lib/validators.ts   *)
(* are operators over a small model of JavaScript values and are exercised *)
(* by SpecV, which calls them directly.  The FormGuard class of            *)
(* src/src/core/form-guard.ts (the variant of lines 1-560) is a state      *)
(* machine over a form with two elements; Spec drives the whole form and   *)
(* SpecField one field with longer rule lists.                             *)
(***************************************************************************)
EXTENDS Integers, Sequences, FiniteSets, TLC

VARIABLES
    vArgs,      \* SpecV: the arguments of a direct validator call
    vRet,       \* SpecV: what the call returned ("pending" before it ran)
    present,    \* the names for which form.elements.namedItem is non-null
    value,      \* the DOM state of each element that getFieldValue reads
    fields,     \* FormGuard.fields: the Map name -> FieldConfig, in insertion order
    ui,         \* per field: its error container and the field's class list
    cache,      \* per field: the formGuard property getFieldValidity leaves on the element
    last,       \* the last operation and what it returned
    config,     \* FormGuard.config: the options that change what a call does
    markup,     \* per name: the constraint attributes of its element(s)
    formListeners,  \* the event listeners on the form, in the order they were added
    eventListeners, \* FormGuard.eventListeners: the Map key -> handler, in insertion order
    registry,   \* the entries addCustomValidator has written into validatorsRegistry
    other,      \* a second FormGuard, on another form: its fields and its config
    customValidity  \* the elements on which setCustomValidity has set a message

vars == <<vArgs, vRet, present, value, fields, ui, cache, last, config, markup,
          formListeners, eventListeners, registry, other, customValidity>>

(***************************************************************************)
(* Bounds.                                                                 *)
(***************************************************************************)
\* The most calls of onSubmit and enableAutoSubmit together.
MaxSubmitHandlers == 2

MaxStrLen == 3      \* longest string handed to a validator in SpecV
MaxRules == 3       \* longest rule list handed to addField
MaxNum == 2         \* largest number used as a rule parameter or numeric value
MaxFlagRules == 2   \* longest rule list of SpecFlags

(***************************************************************************)
(* JavaScript values.  A string is a sequence of one-character strings, an *)
(* array a sequence of such strings.  Every value has the same four        *)
(* fields so that any two can be compared.                                 *)
(***************************************************************************)
Null == [t |-> "null", s |-> <<>>, n |-> 0, a |-> <<>>]
Undefined == [t |-> "undefined", s |-> <<>>, n |-> 0, a |-> <<>>]
NaN == [t |-> "NaN", s |-> <<>>, n |-> 0, a |-> <<>>]
Str(s) == [t |-> "string", s |-> s, n |-> 0, a |-> <<>>]
Num(n) == [t |-> "number", s |-> <<>>, n |-> n, a |-> <<>>]
Bool(b) == [t |-> "boolean", s |-> <<>>, n |-> IF b THEN 1 ELSE 0, a |-> <<>>]
Arr(a) == [t |-> "array", s |-> <<>>, n |-> 0, a |-> a]

IsArray(v) == v.t = "array"

Digits == {"0", "1", "2", "3", "4", "5", "6", "7", "8", "9"}
Letters == {"a", "b", "c", "d", "e", "f", "g", "h", "i", "j", "k", "l", "m",
            "n", "o", "p", "q", "r", "s", "t", "u", "v", "w", "x", "y", "z",
            "A", "B", "C", "D", "E", "F", "G", "H", "I", "J", "K", "L", "M",
            "N", "O", "P", "Q", "R", "S", "T", "U", "V", "W", "X", "Y", "Z"}
Whitespace == {" ", "\t", "\n"}

SeqsUpTo(S, k) == UNION {[1..m -> S] : m \in 0..k}

RECURSIVE Filter(_, _)
Filter(s, Keep) ==
    IF s = <<>> THEN <<>>
    ELSE (IF Head(s) \in Keep THEN <<Head(s)>> ELSE <<>>) \o Filter(Tail(s), Keep)

Chars(s) == {s[i] : i \in 1..Len(s)}

\* The truthiness test of `!value'.
Falsy(v) ==
    \/ v.t \in {"null", "undefined", "NaN"}
    \/ v.t = "string" /\ v.s = <<>>
    \/ v.t = "number" /\ v.n = 0
    \/ v.t = "boolean" /\ v.n = 0

DigitChar(d) == CASE d = 0 -> "0" [] d = 1 -> "1" [] d = 2 -> "2" [] d = 3 -> "3"
                  [] d = 4 -> "4" [] d = 5 -> "5" [] d = 6 -> "6" [] d = 7 -> "7"
                  [] d = 8 -> "8" [] OTHER -> "9"
DigitVal(c) == CHOOSE d \in 0..9 : DigitChar(d) = c

RECURSIVE NatToStr(_)
NatToStr(n) == IF n < 10 THEN <<DigitChar(n)>>
               ELSE NatToStr(n \div 10) \o <<DigitChar(n % 10)>>
IntToStr(n) == IF n < 0 THEN <<"-">> \o NatToStr(-n) ELSE NatToStr(n)

RECURSIVE Join(_)
Join(a) == IF a = <<>> THEN <<>>
           ELSE IF Len(a) = 1 THEN a[1]
           ELSE a[1] \o <<",">> \o Join(Tail(a))

\* String(value).
ToStr(v) ==
    CASE v.t = "string" -> v.s
      [] v.t = "number" -> IntToStr(v.n)
      [] v.t = "NaN" -> <<"N", "a", "N">>
      [] v.t = "boolean" -> IF v.n = 1 THEN <<"t", "r", "u", "e">>
                            ELSE <<"f", "a", "l", "s", "e">>
      [] v.t = "null" -> <<"n", "u", "l", "l">>
      [] v.t = "undefined" -> <<"u", "n", "d", "e", "f", "i", "n", "e", "d">>
      [] OTHER -> Join(v.a)

RECURSIVE TrimLeft(_)
TrimLeft(s) == IF s # <<>> /\ Head(s) \in Whitespace THEN TrimLeft(Tail(s)) ELSE s
RECURSIVE TrimRight(_)
TrimRight(s) == IF s # <<>> /\ s[Len(s)] \in Whitespace
                THEN TrimRight(SubSeq(s, 1, Len(s) - 1)) ELSE s
Trim(s) == TrimRight(TrimLeft(s))

RECURSIVE DigitsToNat(_)
DigitsToNat(s) == IF s = <<>> THEN 0
                  ELSE 10 * DigitsToNat(SubSeq(s, 1, Len(s) - 1)) + DigitVal(s[Len(s)])

\* Number(string), for strings without ".", "e", "x" or "Infinity": blank is 0,
\* an optionally signed run of digits is its value, anything else is NaN.
StrToNum(s) ==
    LET t == Trim(s)
        body == IF t # <<>> /\ Head(t) \in {"+", "-"} THEN Tail(t) ELSE t
    IN  IF t = <<>> THEN Num(0)
        ELSE IF body # <<>> /\ Chars(body) \subseteq Digits
             THEN Num(IF Head(t) = "-" THEN 0 - DigitsToNat(body) ELSE DigitsToNat(body))
             ELSE NaN

\* Number(value).
ToNum(v) ==
    CASE v.t = "number" -> v
      [] v.t = "NaN" -> NaN
      [] v.t = "boolean" -> Num(v.n)
      [] v.t = "null" -> Num(0)
      [] v.t = "undefined" -> NaN
      [] OTHER -> StrToNum(ToStr(v))

\* a >= b and a <= b on numbers: every comparison with NaN is false.
NumGe(a, b) == a.t = "number" /\ b.t = "number" /\ a.n >= b.n
NumLe(a, b) == a.t = "number" /\ b.t = "number" /\ a.n <= b.n

(***************************************************************************)
(* The regular expressions and the URL parser the validators use.          *)
(***************************************************************************)
\* /^[^\s@]+@[^\s@]+\.[^\s@]+$/.test(s)
EmailRegexTest(s) ==
    \E i \in 2..Len(s) :
        /\ s[i] = "@"
        /\ \A j \in (1..Len(s)) \ {i} : s[j] \notin Whitespace \cup {"@"}
        /\ \E k \in (i + 2)..(Len(s) - 1) : s[k] = "."

\* /^[\+]?[0-9\s\-\(\)]+$/.test(s)
PhoneRegexTest(s) ==
    LET body == IF s # <<>> /\ Head(s) = "+" THEN Tail(s) ELSE s
    IN  body # <<>> /\ Chars(body) \subseteq (Digits \cup Whitespace \cup {"-", "(", ")"})

\* s.replace(/\s/g, '')
StripWhitespace(s) == Filter(s, (Chars(s) \ Whitespace))

Contains(s, p) == \E i \in 0..(Len(s) - Len(p)) : SubSeq(s, i + 1, i + Len(p)) = p

\* new RegExp(p): a pattern with an unterminated character class is a SyntaxError.
RegExpCompiles(p) == ~("[" \in Chars(p) /\ "]" \notin Chars(p))
\* new RegExp(p).test(s) for a pattern of literal characters: an unanchored search.
RegExpTest(p, s) == Contains(s, p)

\* new URL(s) without a base succeeds iff s, stripped, starts with a scheme and ":".
\* (Strings with "/" or a special scheme such as http need a host as well; the
\* strings of this model hold neither.)
UrlParses(s) ==
    LET t == Trim(Filter(s, Chars(s) \ {"\t", "\n"}))
    IN  \E i \in 2..Len(t) :
            /\ t[i] = ":"
            /\ t[1] \in Letters
            /\ \A j \in 2..(i - 1) : t[j] \in Letters \cup Digits \cup {"+", "-", "."}

(***************************************************************************)
(* The validators (src/src/lib/validators.ts).  The field argument is the  *)
(* element's type, or NoField when the caller passes no field.             *)
(***************************************************************************)
NoField == "none"

validateRequired(v, p, field) ==
    IF field = NoField THEN TRUE
    ELSE IF field = "checkbox" THEN v = Bool(TRUE)
    ELSE IF IsArray(v) THEN Len(v.a) > 0
    ELSE v # Null /\ v # Undefined /\ v # Str(<<>>)

validateEmail(v, p, field) ==
    IF Falsy(v) THEN TRUE ELSE EmailRegexTest(ToStr(v))

validateMinLength(v, p, field) ==
    IF Falsy(v) THEN TRUE
    ELSE IF IsArray(v) THEN NumGe(Num(Len(v.a)), ToNum(p))
    ELSE NumGe(Num(Len(ToStr(v))), ToNum(p))

validateMaxLength(v, p, field) ==
    IF Falsy(v) THEN TRUE
    ELSE IF IsArray(v) THEN NumLe(Num(Len(v.a)), ToNum(p))
    ELSE NumLe(Num(Len(ToStr(v))), ToNum(p))

validateMin(v, p, field) ==
    IF v = Null \/ v = Undefined \/ v = Str(<<>>) THEN TRUE
    ELSE NumGe(ToNum(v), ToNum(p))

validateMax(v, p, field) ==
    IF v = Null \/ v = Undefined \/ v = Str(<<>>) THEN TRUE
    ELSE NumLe(ToNum(v), ToNum(p))

validatePattern(v, p, field) ==
    IF Falsy(v) THEN TRUE
    ELSE IF ~RegExpCompiles(ToStr(p)) THEN FALSE
    ELSE RegExpTest(ToStr(p), ToStr(v))

validateUrl(v, p, field) ==
    IF Falsy(v) THEN TRUE ELSE UrlParses(ToStr(v))

validatePhone(v, p, field) ==
    IF Falsy(v) THEN TRUE ELSE PhoneRegexTest(StripWhitespace(ToStr(v)))

\* The own keys of the validatorsRegistry object.
validatorsRegistry ==
    {"required", "email", "minLength", "maxLength", "min", "max", "pattern", "url", "phone"}

\* validatorsRegistry is a plain object: a key it does not own is looked up on
\* Object.prototype.  These are the inherited members the model follows.
ObjectPrototype == {"constructor", "toString", "hasOwnProperty", "isPrototypeOf"}

\* A call returns "true" or "false" (the truthiness of what it returned) or "throws".
Returned(b) == IF b THEN "true" ELSE "false"

\* validator(value, rule.value, field) for a validator found under `name'.  The
\* inherited functions are called with `this' undefined: constructor and toString
\* return an object and a string (truthy), hasOwnProperty throws a TypeError,
\* isPrototypeOf returns false for a primitive and throws for an object.
CallValidator(name, v, p, field) ==
    CASE name = "required" -> Returned(validateRequired(v, p, field))
      [] name = "email" -> Returned(validateEmail(v, p, field))
      [] name = "minLength" -> Returned(validateMinLength(v, p, field))
      [] name = "maxLength" -> Returned(validateMaxLength(v, p, field))
      [] name = "min" -> Returned(validateMin(v, p, field))
      [] name = "max" -> Returned(validateMax(v, p, field))
      [] name = "pattern" -> Returned(validatePattern(v, p, field))
      [] name = "url" -> Returned(validateUrl(v, p, field))
      [] name = "phone" -> Returned(validatePhone(v, p, field))
      [] name \in {"constructor", "toString"} -> "true"
      [] name = "hasOwnProperty" -> "throws"
      [] OTHER -> IF IsArray(v) THEN "throws" ELSE "false"

\* The predicates handed to addCustomValidator: () => true, () => false and
\* (value, param) => value === param.
Predicates == {"accept", "reject", "matches"}

\* predicate(value, rule.value, field)
CallPredicate(pred, v, p, field) ==
    CASE pred = "accept" -> "true"
      [] pred = "reject" -> "false"
      [] OTHER -> Returned(v = p)

\* validatorsRegistry before any addCustomValidator.
NoEntries == [k \in {} |-> ""]

\* validatorsRegistry[name] is a function.
RegistryHas(name) ==
    name \in DOMAIN registry \cup validatorsRegistry \cup ObjectPrototype

\* A validateRule that looks the name up in the registry as the module defines it.
validateRuleAsLoaded(field, v, rule) ==
    IF rule.rule \notin validatorsRegistry \cup ObjectPrototype THEN "true"
    ELSE CallValidator(rule.rule, v, rule.value, field)

validateRule(field, v, rule) ==
    IF ~RegistryHas(rule.rule) THEN "true"
    ELSE IF rule.rule \in DOMAIN registry
    THEN CallPredicate(registry[rule.rule], v, rule.value, field)
    ELSE CallValidator(rule.rule, v, rule.value, field)

(***************************************************************************)
(* SpecV: direct calls of the exported validators and of validateRule,     *)
(* as the repository's tests make them.                                    *)
(***************************************************************************)
Alphabet == {"1", "a", "+", " "}
Strings == SeqsUpTo(Alphabet, MaxStrLen)
Arrays == SeqsUpTo({<<"a">>}, MaxNum)

Values ==
    {Null, Undefined, Bool(TRUE), Bool(FALSE)}
        \cup {Num(k) : k \in 0..MaxNum}
        \cup {Str(s) : s \in Strings}
        \cup {Arr(a) : a \in Arrays}

\* rule.value: absent, null, a number, a pattern.
Params == {Undefined, Null, Str(<<"a">>), Str(<<"[">>)} \cup {Num(k) : k \in 0..MaxNum}

\* The rule names the README lists beside those of the registry.
DocumentedRules == {"numeric", "integer", "alphanumeric", "arrayMin", "arrayMax", "equalTo"}

\* The rule names handed to validateRule: the registry's own, two it does not
\* hold, the documented ones, and names that Object.prototype holds.
RuleNames ==
    validatorsRegistry \cup {"unknown", "custom"} \cup DocumentedRules \cup ObjectPrototype

FieldArgs == {NoField, "text", "checkbox"}

machine == <<present, value, fields, ui, cache, last, config, markup, formListeners,
             eventListeners, registry, other, customValidity>>

CallInputs ==
    [kind : {"validator"}, fn : validatorsRegistry, value : Values, param : Params,
     field : FieldArgs]
        \cup [kind : {"validateRule"}, fn : RuleNames, value : Values, param : Params,
              field : FieldArgs \ {NoField}]

\* validatorsRegistry[fn](value, param, field)
ApplyValidator ==
    /\ vRet = "pending"
    /\ vArgs.kind = "validator"
    /\ vRet' = CallValidator(vArgs.fn, vArgs.value, vArgs.param, vArgs.field)
    /\ UNCHANGED <<vArgs, machine>>

\* validateRule(field, value, {rule: fn, value: param})
ApplyValidateRule ==
    /\ vRet = "pending"
    /\ vArgs.kind = "validateRule"
    /\ vRet' = validateRule(vArgs.field, vArgs.value,
                            [rule |-> vArgs.fn, value |-> vArgs.param])
    /\ UNCHANGED <<vArgs, machine>>

(***************************************************************************)
(* The form.  Two named elements, each with an error container:            *)
(*   <input type="text" name="user">  <select multiple name="tags">        *)
(* Where validation runs neither carries a constraint attribute, so the    *)
(* native ValidityState of both is valid with every flag false.            *)
(***************************************************************************)
FieldNames == {"user", "tags"}

\* SpecMarkup adds a group of two radio buttons named "plan".  namedItem returns
\* a RadioNodeList for it, which is no HTMLElement and has no type.
Elements == FieldNames \cup {"plan"}
IsGroup(name) == name = "plan"

ElType(name) ==
    CASE name = "user" -> "text"
      [] name = "tags" -> "select-multiple"
      [] OTHER -> "undefined"

\* The attributes syncWithHTMLAttributes reads, and an element without them.
AttrNames == {"required", "minlength", "maxlength", "min", "max", "pattern", "type"}
NoMarkup == [a \in AttrNames |-> Null]

\* field.getAttribute(a) (null when absent) and field.hasAttribute(a).
getAttribute(name, a) == markup[name][a]
hasAttribute(name, a) == markup[name][a] # Null

\* What getFieldValue reads from an element: value, checked, selectedOptions.
Dom(v, c, sel) == [value |-> v, checked |-> c, selected |-> sel]
FieldAlphabet == {"a"}
DomStates(name) ==
    IF ElType(name) = "select-multiple"
    THEN {Dom(<<>>, FALSE, a) : a \in Arrays}
    ELSE {Dom(s, FALSE, <<>>) : s \in SeqsUpTo(FieldAlphabet, MaxNum)}

\* valueAsNumber of a number input is NaN unless the text is a number.
getFieldValue(name) ==
    LET type == ElType(name)
        dom == value[name]
    IN  IF type = "checkbox" THEN Bool(dom.checked)
        ELSE IF type \in {"number", "range"}
             THEN (IF dom.value = <<>> \/ StrToNum(dom.value) = NaN
                   THEN Str(<<>>) ELSE StrToNum(dom.value))
        ELSE IF type = "select-multiple" THEN Arr(dom.selected)
        ELSE Str(dom.value)

\* A validity read back from the formGuard property the last pass left on the
\* element.
cachedValidity(name) == cache[name]

\* fieldElement.validity.patternMismatch: the element has a pattern attribute,
\* its value is not empty and the pattern, compiled anchored as ^(?:p)$, does not
\* match it; a pattern of literal characters matches only the value equal to it.
patternMismatch(name) ==
    /\ hasAttribute(name, "pattern")
    /\ value[name].value # <<>>
    /\ value[name].value # getAttribute(name, "pattern").s

\* The flags of fieldElement.validity the model follows: customError while a
\* message set by setCustomValidity is in place, and patternMismatch.
nativeFlags(name) ==
    (IF name \in customValidity THEN {"customError"} ELSE {})
        \cup (IF patternMismatch(name) THEN {"patternMismatch"} ELSE {})

\* fieldElement.validity: valid iff no flag is set.
nativeValidity(name) == [valid |-> nativeFlags(name) = {}, flags |-> nativeFlags(name)]

(***************************************************************************)
(* Rules.                                                                  *)
(***************************************************************************)
NoValidator == "none"
Rule(name, param, cv) ==
    [rule |-> name, value |-> param, errorMessage |-> "", customValidator |-> cv]

\* rule.customValidator(value, fieldElement): the two inline predicates in use.
CallCustom(cv, v) == IF cv = "accept" THEN "true" ELSE "false"

\* The rules of SpecField: two of one name, one of them carrying an inline
\* predicate it does not use, and a "custom" rule with its inline predicate.
RulePool ==
    {Rule("minLength", Num(1), NoValidator),
     Rule("minLength", Num(MaxNum), "accept"),
     Rule("custom", Undefined, "reject")}

RuleLists == SeqsUpTo(RulePool, MaxRules)

\* What no call on a FormGuard and no event changes but suppressWarnings.
fixed == <<vArgs, vRet, config, markup, registry, other, customValidity>>

\* What the calls on a FormGuard and the edits of its form leave alone.
rest == <<vArgs, vRet, config, markup, formListeners, eventListeners, registry, other,
          customValidity>>

\* this.fields.get(name): the index of the entry, 0 when there is none.
FieldIndex(name) ==
    IF \E i \in 1..Len(fields) : fields[i].name = name
    THEN CHOOSE i \in 1..Len(fields) : fields[i].name = name
    ELSE 0
Registered(name) == FieldIndex(name) # 0
RulesOf(name) == fields[FieldIndex(name)].rules

(***************************************************************************)
(* Error messages and their display.                                       *)
(***************************************************************************)
\* The keys of FormGuard.defaultErrorMessages, and those whose text holds {value}.
defaultErrorMessages ==
    {"required", "email", "minLength", "maxLength", "min", "max", "pattern", "url",
     "phone", "custom"}
HasPlaceholder == {"minLength", "maxLength", "min", "max"}

NoMessage == [from |-> "", rule |-> "", field |-> "", arg |-> <<>>, text |-> ""]

\* The message is the rule's own text, or the default of the rule's name with
\* {value} replaced by String(rule.value || ''), or the text naming field and rule.
\* defaultMessages is a plain object: under a name of Object.prototype it yields
\* a function, which has no replace method, and the call throws.
createErrorMessage(rule, fieldName) ==
    IF rule.errorMessage # ""
    THEN [NoMessage EXCEPT !.from = "rule", !.text = rule.errorMessage]
    ELSE IF rule.rule \in ObjectPrototype
    THEN [NoMessage EXCEPT !.from = "throws", !.rule = rule.rule]
    ELSE IF rule.rule \in defaultErrorMessages
    THEN [NoMessage EXCEPT
             !.from = "default", !.rule = rule.rule,
             !.arg = IF rule.rule \in HasPlaceholder
                     THEN ToStr(IF Falsy(rule.value) THEN Str(<<>>) ELSE rule.value)
                     ELSE <<>>]
    ELSE [NoMessage EXCEPT !.from = "fallback", !.rule = rule.rule, !.field = fieldName]

\* The config of a FormGuard constructed without options (lines 57-66).
defaultConfig ==
    [suppressAllWarnings |-> FALSE, validateOnChange |-> FALSE, validateOnBlur |-> FALSE,
     errorClass |-> "error", successClass |-> "success"]

\* this.config.errorClass and this.config.successClass, as displayFieldError and
\* clearFieldError hand them to showError and hideError.
errorClass == config.errorClass
successClass == config.successClass

\* An error container and its field before any display.
InitUi == [text |-> NoMessage, classes |-> {}, display |-> "",
           fieldClasses |-> {}, ariaInvalid |-> ""]

showError(u, message) ==
    [text |-> message,
     classes |-> (u.classes \cup {errorClass}) \ {"success", "valid"},
     display |-> "block",
     fieldClasses |-> (u.fieldClasses \cup {errorClass}) \ {"success", "valid"},
     ariaInvalid |-> "true"]

hideError(u) ==
    LET classes == (u.classes \ {"error", "invalid"}) \cup {successClass}
    IN  [text |-> NoMessage,
         classes |-> classes,
         display |-> "none",
         fieldClasses |-> (u.fieldClasses \ {"error", "invalid"}) \cup {successClass},
         ariaInvalid |-> IF "error" \in classes THEN u.ariaInvalid ELSE "false"]

\* displayFieldError and clearFieldError on the display state `d' of all fields;
\* every field of the form has a container.
displayFieldError(d, fieldName, rule) ==
    [d EXCEPT ![fieldName] = showError(d[fieldName], createErrorMessage(rule, fieldName))]
clearFieldError(d, fieldName) ==
    [d EXCEPT ![fieldName] = hideError(d[fieldName])]

(***************************************************************************)
(* validateField (lines 278-323).                                          *)
(***************************************************************************)
\* A loop that hands every rule to the registry, inline predicate or not.
ruleValidByRegistry(name, v, rule) == validateRule(ElType(name), v, rule)

\* One rule of the loop of validateField: the inline predicate of a rule named
\* "custom", the registry otherwise.
ruleValid(name, v, rule) ==
    IF rule.rule = "custom" /\ rule.customValidator # NoValidator
    THEN CallCustom(rule.customValidator, v)
    ELSE validateRule(ElType(name), v, rule)

\* A loop without the break: it runs on after a failing rule.
NeverBreaks(outcome) == FALSE

\* The loop leaves at a failing rule.
BreaksAt(outcome) == outcome = "false"

\* The body of the loop for rule i, given the outcome of the rule.  acc: isValid,
\* firstErrorRule (an index, 0 for null), evaluated (the rules evaluated, each
\* with its outcome), broke, threw.
loopBody(acc, i, out) ==
    IF out = "throws"
    THEN [acc EXCEPT !.evaluated = Append(@, [idx |-> i, outcome |-> out]),
                     !.threw = TRUE]
    ELSE IF out = "false"
    THEN [acc EXCEPT !.evaluated = Append(@, [idx |-> i, outcome |-> out]),
                     !.isValid = FALSE,
                     !.firstErrorRule = i,
                     !.broke = BreaksAt(out)]
    ELSE [acc EXCEPT !.evaluated = Append(@, [idx |-> i, outcome |-> out])]

\* The loop from rule i on.
RECURSIVE RunRules(_, _, _, _, _)
RunRules(name, v, rules, i, acc) ==
    IF i > Len(rules) \/ acc.broke \/ acc.threw THEN acc
    ELSE RunRules(name, v, rules, i + 1, loopBody(acc, i, ruleValid(name, v, rules[i])))

NoRun == [isValid |-> TRUE, firstErrorRule |-> 0, evaluated |-> <<>>, broke |-> FALSE,
          threw |-> FALSE]

NoValidity == [valid |-> TRUE, flags |-> {"none"}]
\* What an operation leaves in `last'.  `again' records that the operation before
\* a validate() was a validate() too, `warnings' the console.warn calls of the
\* FormGuard made during the operation, `rules' the rules handed to addField,
\* `prevented' whether an event's default action was prevented, `log' what the
\* listeners of an event did, in order, and `message' what createErrorMessage
\* returned to a direct call.
Last(op, name) ==
    [op |-> op, field |-> name, showUI |-> FALSE, threw |-> FALSE, ret |-> TRUE,
     firstErrorRule |-> 0, evaluated |-> <<>>, errors |-> <<>>, validity |-> NoValidity,
     again |-> FALSE, warnings |-> {}, rules |-> <<>>, prevented |-> FALSE, log |-> <<>>,
     message |-> NoMessage]

\* Lines 314-320 on the display state d, given the state the loop ended in.
fieldDisplay(d, name, showUI, run) ==
    IF run.threw \/ ~showUI THEN d
    ELSE IF ~run.isValid /\ run.firstErrorRule # 0
    THEN displayFieldError(d, name, RulesOf(name)[run.firstErrorRule])
    ELSE clearFieldError(d, name)

\* Lines 314-322, given the state the loop ended in.
validateFieldResult(name, showUI, run) ==
    /\ last' = [Last("validateField", name) EXCEPT
                   !.showUI = showUI, !.threw = run.threw, !.ret = run.isValid,
                   !.firstErrorRule = run.firstErrorRule,
                   !.evaluated = run.evaluated]
    /\ ui' = fieldDisplay(ui, name, showUI, run)
    /\ UNCHANGED <<present, value, fields, cache>>

\* What validateField returns for a field that was not added.
VacuouslyInvalid == FALSE

\* What validateField returns for a field that was not added (line 286).
VacuouslyValid == TRUE

\* Lines 280-287: the field was not added.
notAdded(name, showUI) ==
    /\ last' = [Last("validateField", name) EXCEPT
                   !.showUI = showUI,
                   !.ret = VacuouslyValid,
                   !.warnings = IF config.suppressAllWarnings THEN {} ELSE {"notAdded"}]
    /\ UNCHANGED <<present, value, fields, ui, cache>>

validateField(name, showUI) ==
    IF ~Registered(name) THEN notAdded(name, showUI)
    ELSE IF name \notin present
    THEN /\ last' = [Last("validateField", name) EXCEPT !.showUI = showUI]
         /\ UNCHANGED <<present, value, fields, ui, cache>>
    ELSE validateFieldResult(name, showUI,
             RunRules(name, getFieldValue(name), RulesOf(name), 1, NoRun))

(***************************************************************************)
(* getFieldValidity (lines 395-479).                                       *)
(***************************************************************************)
\* A loop of getFieldValidity that hands every rule to the registry.
isValidByRegistry(name, v, rule) == validateRule(ElType(name), v, rule)

\* One rule of the loop of getFieldValidity.
isValid(name, v, rule) ==
    IF rule.rule = "custom" /\ rule.customValidator # NoValidator
    THEN CallCustom(rule.customValidator, v)
    ELSE validateRule(ElType(name), v, rule)

\* `${rule.rule}Mismatch`
mismatchFlag(rule) == rule.rule \o "Mismatch"

\* A loop without the switch: only the rule's own Mismatch flag is set.
NoNativeStyleFlags(rule) == {}

\* The switch of lines 444-470: the native-style flags a failing rule sets.
NativeStyleFlags(rule) ==
    CASE rule.rule = "required" -> {"valueMissing"}
      [] rule.rule \in {"email", "url"} -> {"typeMismatch"}
      [] rule.rule = "minLength" -> {"tooShort"}
      [] rule.rule = "maxLength" -> {"tooLong"}
      [] rule.rule = "min" -> {"rangeUnderflow"}
      [] rule.rule = "max" -> {"rangeOverflow"}
      [] rule.rule = "pattern" -> {"patternMismatch"}
      [] rule.rule = "phone" -> {"customError"}
      [] OTHER -> {}

\* The body of the loop for rule i, given the outcome of the rule.  acc: allValid,
\* flags (the flags that are true), evaluated, threw.
flagRule(acc, rule, i, out) ==
    IF out = "throws"
    THEN [acc EXCEPT !.evaluated = Append(@, [idx |-> i, outcome |-> out]),
                     !.threw = TRUE]
    ELSE IF out = "false"
    THEN [acc EXCEPT !.evaluated = Append(@, [idx |-> i, outcome |-> out]),
                     !.allValid = FALSE,
                     !.flags = @ \cup {mismatchFlag(rule)} \cup NativeStyleFlags(rule)]
    ELSE [acc EXCEPT !.evaluated = Append(@, [idx |-> i, outcome |-> out])]

\* The loop over every rule, from rule i on.
RECURSIVE AllRules(_, _, _, _, _)
AllRules(name, v, rules, i, acc) ==
    IF i > Len(rules) \/ acc.threw THEN acc
    ELSE AllRules(name, v, rules, i + 1,
                  flagRule(acc, rules[i], i, isValid(name, v, rules[i])))

\* What a call of getFieldValidity yields: threw, the Validity returned, whether it
\* was stored on the element as formGuard, and the rules evaluated.
NoResult == [threw |-> FALSE, validity |-> NoValidity, stored |-> FALSE, evaluated |-> <<>>]

\* Lines 408-420: the validity object before the rules, from the native one.
initialValidity(native) ==
    [allValid |-> TRUE, flags |-> native.flags, evaluated |-> <<>>, threw |-> FALSE]

\* Lines 422-425: a field that was not registered.
unregisteredValidity(native) ==
    [NoResult EXCEPT !.validity = [valid |-> ~native.valid, flags |-> native.flags]]

\* Lines 474-478, given the state the loop ended in.
rulesValidity(run) ==
    IF run.threw THEN [NoResult EXCEPT !.threw = TRUE, !.evaluated = run.evaluated]
    ELSE [NoResult EXCEPT !.validity = [valid |-> run.allValid, flags |-> run.flags],
                          !.stored = TRUE, !.evaluated = run.evaluated]

getFieldValidity(name) ==
    IF name \notin present THEN [NoResult EXCEPT !.threw = TRUE]
    ELSE IF ~Registered(name) THEN unregisteredValidity(nativeValidity(name))
    ELSE rulesValidity(AllRules(name, getFieldValue(name), RulesOf(name), 1,
                                initialValidity(nativeValidity(name))))

(***************************************************************************)
(* validate (lines 325-361).                                               *)
(***************************************************************************)
\* An errors array kept between calls instead of being created by each.
StaleErrors == IF last.op = "validate" THEN last.errors ELSE <<>>

\* const errors = []
NewErrors == <<>>

\* config.rules.find(rule => fieldValidity[`${rule.rule}Mismatch`] === true):
\* the index of the rule found, 0 for undefined.
violatedRule(rules, validity) ==
    LET hits == {i \in 1..Len(rules) : mismatchFlag(rules[i]) \in validity.flags}
    IN  IF hits = {} THEN 0 ELSE CHOOSE i \in hits : \A j \in hits : i <= j

\* The callback of this.fields.forEach for one entry, given what getFieldValidity
\* returned for it.  st: errors, ui, cache, threw.
forEachField(st, name, rules, got) ==
    IF got.threw THEN [st EXCEPT !.threw = TRUE]
    ELSE IF got.validity.valid
    THEN [st EXCEPT !.cache[name] = got.validity, !.ui = clearFieldError(st.ui, name)]
    ELSE IF violatedRule(rules, got.validity) = 0
    THEN [st EXCEPT !.cache[name] = got.validity]
    ELSE [st EXCEPT
             !.cache[name] = got.validity,
             !.errors = Append(@, [field |-> name,
                                   message |-> createErrorMessage(
                                       rules[violatedRule(rules, got.validity)], name),
                                   rule |-> rules[violatedRule(rules, got.validity)].rule]),
             !.ui = displayFieldError(st.ui, name, rules[violatedRule(rules, got.validity)])]

\* this.fields.forEach from entry i on; an exception ends it.
RECURSIVE ValidateFrom(_, _)
ValidateFrom(i, st) ==
    IF i > Len(fields) \/ st.threw THEN st
    ELSE ValidateFrom(i + 1, forEachField(st, fields[i].name, fields[i].rules,
                                          getFieldValidity(fields[i].name)))

\* What validate() leaves and returns, given the state the loop ended in.
validateResult(run) ==
    /\ ui' = run.ui
    /\ cache' = run.cache
    /\ last' = [Last("validate", "") EXCEPT
                   !.threw = run.threw,
                   !.ret = (~run.threw /\ Len(run.errors) = 0),
                   !.errors = IF run.threw THEN <<>> ELSE run.errors,
                   !.again = (last.op = "validate")]
    /\ UNCHANGED <<present, value, fields>>

validate ==
    validateResult(ValidateFrom(1, [errors |-> NewErrors, ui |-> ui, cache |-> cache,
                                    threw |-> FALSE]))

\* The public accessor, given what the call yields.
getFieldValidityResult(name, got) ==
    /\ cache' = IF got.stored THEN [cache EXCEPT ![name] = got.validity] ELSE cache
    /\ last' = [Last("getFieldValidity", name) EXCEPT
                   !.threw = got.threw, !.ret = got.validity.valid,
                   !.validity = got.validity, !.evaluated = got.evaluated]
    /\ UNCHANGED <<present, value, fields, ui>>

GetFieldValidity(name) == getFieldValidityResult(name, getFieldValidity(name))

(***************************************************************************)
(* addField (lines 129-160).                                               *)
(***************************************************************************)
\* The longest prefix of digits.
RECURSIVE DigitPrefix(_)
DigitPrefix(s) ==
    IF s = <<>> \/ Head(s) \notin Digits THEN <<>> ELSE <<Head(s)>> \o DigitPrefix(Tail(s))

\* The digits parseInt reads: after leading whitespace and an optional sign.
IntBody(s) ==
    IF TrimLeft(s) # <<>> /\ Head(TrimLeft(s)) \in {"+", "-"}
    THEN DigitPrefix(Tail(TrimLeft(s)))
    ELSE DigitPrefix(TrimLeft(s))

\* parseInt(s, 10): the number the leading digits spell, NaN without a digit.
parseInt(s) ==
    IF IntBody(s) = <<>> THEN NaN
    ELSE IF TrimLeft(s)[1] = "-" THEN Num(0 - DigitsToNat(IntBody(s)))
    ELSE Num(DigitsToNat(IntBody(s)))

\* parseFloat(s) for strings without ".", "e" or "Infinity".
parseFloat(s) == parseInt(s)

\* A rule derived from an attribute.  getAttributeErrorMessage returns undefined:
\* no attribute messages are configured and the elements carry neither a
\* data-*-message nor a title.
htmlRule(name, param) == Rule(name, param, NoValidator)

\* if (v) htmlRules.push(rule), for an attribute value v.
pushIf(v, rule) == IF Falsy(v) THEN <<>> ELSE <<rule>>

\* The rules read from the element's attributes (lines 173-237).
htmlRules(name) ==
    (IF hasAttribute(name, "required") THEN <<htmlRule("required", Undefined)>> ELSE <<>>)
        \o pushIf(getAttribute(name, "minlength"),
                  htmlRule("minLength", parseInt(getAttribute(name, "minlength").s)))
        \o pushIf(getAttribute(name, "maxlength"),
                  htmlRule("maxLength", parseInt(getAttribute(name, "maxlength").s)))
        \o pushIf(getAttribute(name, "min"),
                  htmlRule("min", parseFloat(getAttribute(name, "min").s)))
        \o pushIf(getAttribute(name, "max"),
                  htmlRule("max", parseFloat(getAttribute(name, "max").s)))
        \o pushIf(getAttribute(name, "pattern"),
                  htmlRule("pattern", getAttribute(name, "pattern")))
        \o (IF getAttribute(name, "type") = Str(<<"e", "m", "a", "i", "l">>)
            THEN <<htmlRule("email", Undefined)>> ELSE <<>>)
        \o (IF getAttribute(name, "type") = Str(<<"u", "r", "l">>)
            THEN <<htmlRule("url", Undefined)>> ELSE <<>>)

\* Lines 165-171 and 239-250: a RadioNodeList is no HTMLElement and gets the
\* declared rules only; otherwise each attribute rule whose name is not declared
\* is appended.
syncWithHTMLAttributes(name, jsRules) ==
    IF IsGroup(name) THEN jsRules
    ELSE jsRules \o SelectSeq(htmlRules(name),
                              LAMBDA r : \A i \in 1..Len(jsRules) : jsRules[i].rule # r.rule)

\* checkRuleConflicts(fieldElement, rules) throws: its first statement calls
\* field.hasAttribute, which a RadioNodeList does not have.  (On an element it
\* only warns of conflicting values.)
checkRuleConflictsThrows(name) == IsGroup(name)

\* Map.set: an existing key keeps its place.
MapSet(m, name, rules) ==
    LET entry == [name |-> name, rules |-> rules]
    IN  IF \E i \in 1..Len(m) : m[i].name = name
        THEN [i \in 1..Len(m) |-> IF m[i].name = name THEN entry ELSE m[i]]
        ELSE Append(m, entry)

\* An addField that does not look the element up before it stores the rules.
addFieldUnchecked(name, rules) ==
    /\ fields' = MapSet(fields, name, syncWithHTMLAttributes(name, rules))
    /\ last' = [Last("addField", name) EXCEPT !.rules = rules]
    /\ UNCHANGED <<present, value, ui, cache>>

\* Called without options: shouldSuppress is config.suppressAllWarnings.
addField(name, rules) ==
    IF name \notin present
    THEN /\ last' = [Last("addField", name) EXCEPT !.threw = TRUE, !.rules = rules]
         /\ UNCHANGED <<present, value, fields, ui, cache>>
    ELSE IF ~config.suppressAllWarnings /\ checkRuleConflictsThrows(name)
    THEN /\ last' = [Last("addField", name) EXCEPT !.threw = TRUE, !.rules = rules]
         /\ UNCHANGED <<present, value, fields, ui, cache>>
    ELSE /\ fields' = MapSet(fields, name, syncWithHTMLAttributes(name, rules))
         /\ last' = [Last("addField", name) EXCEPT !.rules = rules]
         /\ UNCHANGED <<present, value, ui, cache>>

(***************************************************************************)
(* suppressWarnings, clearErrors and destroy (lines 527-559).              *)
(***************************************************************************)
suppressWarnings(suppress) ==
    /\ config' = [config EXCEPT !.suppressAllWarnings = suppress]
    /\ last' = Last("suppressWarnings", "")
    /\ UNCHANGED <<present, value, fields, ui, cache>>

\* hideError on the container of a field whose element is no longer in the form:
\* removeErrorClassFromField finds no element and leaves the field alone.
hideContainer(u) ==
    [u EXCEPT !.text = NoMessage,
              !.classes = (@ \ {"error", "invalid"}) \cup {successClass},
              !.display = "none"]

\* this.fields.forEach(clearFieldError) from entry i on, on the display state d.
RECURSIVE clearErrors(_, _)
clearErrors(i, d) ==
    IF i > Len(fields) THEN d
    ELSE clearErrors(i + 1,
             IF fields[i].name \in present THEN clearFieldError(d, fields[i].name)
             ELSE [d EXCEPT ![fields[i].name] = hideContainer(d[fields[i].name])])

\* The formGuard property is deleted from every input, select and textarea that
\* is in the form.
deleteCaches == [f \in Elements |-> IF f \in present THEN NoValidity ELSE cache[f]]

\* form.removeEventListener(type, handler, capture)
removeEventListener(ls, type, handler, capture) ==
    SelectSeq(ls, LAMBDA l : ~(l.type = type /\ l.handler = handler /\ l.capture = capture))

\* The event type a key of eventListeners is removed under (lines 543-549).
removedType(key) ==
    IF key = "blur" THEN "blur"
    ELSE IF key \in {"submit", "submit-auto"} THEN "submit"
    ELSE key

\* this.eventListeners.forEach from entry i on, on the listeners ls of the form.
RECURSIVE removeListeners(_, _)
removeListeners(i, ls) ==
    IF i > Len(eventListeners) THEN ls
    ELSE removeListeners(i + 1,
             removeEventListener(ls, removedType(eventListeners[i].key),
                                 eventListeners[i].handler, eventListeners[i].key = "blur"))

destroy ==
    /\ ui' = clearErrors(1, ui)
    /\ fields' = <<>>
    /\ formListeners' = removeListeners(1, formListeners)
    /\ eventListeners' = <<>>
    /\ cache' = deleteCaches
    /\ last' = Last("destroy", "")
    /\ UNCHANGED <<present, value>>

(***************************************************************************)
(* Listeners: setupLiveValidation (lines 93-127), onSubmit (363-376),      *)
(* enableAutoSubmit (378-393) and the events of the form.                  *)
(***************************************************************************)
\* A handler is a closure: `id' tells two closures of one kind apart.
Handler(id, kind) == [id |-> id, kind |-> kind]
Listener(type, handler, capture) == [type |-> type, handler |-> handler, capture |-> capture]

\* setupLiveValidation: the listeners it adds to the form and the entries it puts
\* in eventListeners.
liveListeners(cfg) ==
    (IF cfg.validateOnChange
     THEN <<Listener("input", Handler(1, "input"), FALSE),
            Listener("change", Handler(2, "change"), FALSE)>>
     ELSE <<>>)
        \o (IF cfg.validateOnBlur THEN <<Listener("blur", Handler(3, "blur"), TRUE)>> ELSE <<>>)

liveKeys(cfg) ==
    [i \in 1..Len(liveListeners(cfg)) |->
        [key |-> liveListeners(cfg)[i].type, handler |-> liveListeners(cfg)[i].handler]]

\* Map.prototype.set on eventListeners: a key it has keeps its place.
ListenerSet(m, key, handler) ==
    IF \E i \in 1..Len(m) : m[i].key = key
    THEN [i \in 1..Len(m) |-> IF m[i].key = key THEN [key |-> key, handler |-> handler]
                                ELSE m[i]]
    ELSE Append(m, [key |-> key, handler |-> handler])

\* The id of the next closure: one no listener of the form carries.
NextId ==
    IF \A i \in 1..Len(formListeners) : formListeners[i].handler.id < 4 THEN 4
    ELSE 1 + (CHOOSE n \in {formListeners[i].handler.id : i \in 1..Len(formListeners)} :
                  \A i \in 1..Len(formListeners) : formListeners[i].handler.id <= n)

addSubmitHandler(op, kind, key) ==
    /\ formListeners' = Append(formListeners, Listener("submit", Handler(NextId, kind), FALSE))
    /\ eventListeners' = ListenerSet(eventListeners, key, Handler(NextId, kind))
    /\ last' = Last(op, "")
    /\ UNCHANGED <<present, value, fields, ui, cache>>

onSubmit == addSubmitHandler("onSubmit", "onSubmit", "submit")

enableAutoSubmit == addSubmitHandler("enableAutoSubmit", "auto", "submit-auto")

\* What a listener does is recorded step by step: the handler, what it called,
\* what the call returned ("true", "false", "throws"; "" for preventDefault) and
\* the field of a validateField call.
Step(h, call, result, field) ==
    [handler |-> h.id, call |-> call, result |-> result, field |-> field]

\* An event under dispatch: whether its default is prevented, the steps taken,
\* and the display and cache state the handlers have left so far.
NoEvent == [prevented |-> FALSE, log |-> <<>>, ui |-> ui, cache |-> cache]

\* What validate() returns or does, given the state its loop ended in.
runResult(run) == IF run.threw THEN "throws" ELSE Returned(Len(run.errors) = 0)

\* this.validate() called by a handler.
validateIn(ev) ==
    ValidateFrom(1, [errors |-> NewErrors, ui |-> ev.ui, cache |-> ev.cache, threw |-> FALSE])

\* The handler of onSubmit (lines 366-371), given the run of its validate().
submitHandler(ev, h, run) ==
    [ev EXCEPT !.prevented = TRUE,
               !.ui = run.ui,
               !.cache = run.cache,
               !.log = @ \o <<Step(h, "preventDefault", "", ""),
                              Step(h, "validate", runResult(run), "")>>
                         \o (IF run.threw THEN <<>>
                             ELSE <<Step(h, "callback", runResult(run), "")>>)]

\* this.validateField(name, true) called by a handler on a registered field,
\* given the run of its loop.
validateFieldIn(ev, h, name, run) ==
    [ev EXCEPT !.ui = fieldDisplay(ev.ui, name, TRUE, run),
               !.log = Append(@, Step(h, "validateField",
                                      IF run.threw THEN "throws" ELSE Returned(run.isValid),
                                      name))]

validateFieldCall(ev, h, name) ==
    IF name \notin present
    THEN [ev EXCEPT !.log = Append(@, Step(h, "validateField", "true", name))]
    ELSE validateFieldIn(ev, h, name,
                         RunRules(name, getFieldValue(name), RulesOf(name), 1, NoRun))

\* this.fields.forEach(validateField(fieldName, true)) from entry i on; an
\* exception ends it.
RECURSIVE showFields(_, _, _)
showFields(i, ev, h) ==
    IF i > Len(fields) THEN ev
    ELSE IF ev.log # <<>> /\ ev.log[Len(ev.log)].result = "throws" THEN ev
    ELSE showFields(i + 1, validateFieldCall(ev, h, fields[i].name), h)

\* A handler that prevents the default whatever validate() returned.
AlwaysBlocks(result) == TRUE

\* if (!result.isValid)
Blocks(result) == result = "false"

\* The handler of enableAutoSubmit (lines 379-388), given the run of its validate().
autoSubmitHandler(ev, h, run) ==
    IF run.threw \/ ~Blocks(runResult(run))
    THEN [ev EXCEPT !.ui = run.ui,
                    !.cache = run.cache,
                    !.log = Append(@, Step(h, "validate", runResult(run), ""))]
    ELSE showFields(1, [ev EXCEPT !.prevented = TRUE,
                                  !.ui = run.ui,
                                  !.cache = run.cache,
                                  !.log = @ \o <<Step(h, "validate", runResult(run), ""),
                                                 Step(h, "preventDefault", "", "")>>],
                    h)

\* A live handler that validates every registered field, not the target alone.
liveHandlerOfAll(ev, h, target) ==
    IF Registered(target) THEN showFields(1, ev, h) ELSE ev

\* The handlers of setupLiveValidation (lines 96-121) for an event on an element
\* named `target'; the name of an element without a name is "".
liveHandler(ev, h, target) ==
    IF target # "" /\ Registered(target) THEN validateFieldCall(ev, h, target) ELSE ev

\* One listener called with the event.
handleEvent(ev, h, target) ==
    CASE h.kind = "onSubmit" -> submitHandler(ev, h, validateIn(ev))
      [] h.kind = "auto" -> autoSubmitHandler(ev, h, validateIn(ev))
      [] OTHER -> liveHandler(ev, h, target)

\* The listeners of the form for events of `type', from listener i on.  An
\* exception in a listener is reported and the next listener is called.
RECURSIVE dispatch(_, _, _, _)
dispatch(type, target, i, ev) ==
    IF i > Len(formListeners) THEN ev
    ELSE IF formListeners[i].type # type THEN dispatch(type, target, i + 1, ev)
    ELSE dispatch(type, target, i + 1, handleEvent(ev, formListeners[i].handler, target))

\* What an event leaves, given the state its dispatch ended in.
dispatched(type, target, ev) ==
    /\ ui' = ev.ui
    /\ cache' = ev.cache
    /\ last' = [Last(type, target) EXCEPT !.prevented = ev.prevented, !.log = ev.log]
    /\ UNCHANGED <<present, value, fields, formListeners, eventListeners>>

\* The form is submitted.
submitEvent == dispatched("submit", "", dispatch("submit", "", 1, NoEvent))

\* An input, change or blur event on an element of the form.
fieldEvent(type, target) ==
    /\ target \in present \cup {""}
    /\ dispatched(type, target, dispatch(type, target, 1, NoEvent))

(***************************************************************************)
(* addCustomValidator (lines 481-488), and the calls on the second         *)
(* FormGuard.                                                              *)
(***************************************************************************)
\* validatorsRegistry[ruleName] = validator
RegistrySet(name, pred) ==
    [k \in DOMAIN registry \cup {name} |-> IF k = name THEN pred ELSE registry[k]]

\* The console.warn of lines 482-484 for an instance with the given setting.
overrideWarning(name, suppressAll) ==
    IF RegistryHas(name) /\ ~suppressAll THEN {"override"} ELSE {}

addCustomValidator(name, pred) ==
    /\ registry' = RegistrySet(name, pred)
    /\ last' = [Last("addCustomValidator", name) EXCEPT
                   !.warnings = overrideWarning(name, config.suppressAllWarnings)]
    /\ UNCHANGED <<present, value, fields, ui, cache>>

\* What a call on the second FormGuard leaves alone.
own == <<vArgs, vRet, present, value, fields, ui, cache, config, markup, formListeners,
         eventListeners, customValidity>>

\* other.addField(name, rules): the other form has the element, without
\* constraint attributes.
otherAddField(name, rules) ==
    /\ other' = [other EXCEPT !.fields = MapSet(@, name, rules)]
    /\ last' = Last("other.addField", name)
    /\ UNCHANGED <<own, registry>>

otherAddCustomValidator(name, pred) ==
    /\ registry' = RegistrySet(name, pred)
    /\ last' = [Last("other.addCustomValidator", name) EXCEPT
                   !.warnings = overrideWarning(name, other.suppressAllWarnings)]
    /\ UNCHANGED <<own, other>>

otherSuppressWarnings(suppress) ==
    /\ other' = [other EXCEPT !.suppressAllWarnings = suppress]
    /\ last' = Last("other.suppressWarnings", "")
    /\ UNCHANGED <<own, registry>>

otherDestroy ==
    /\ other' = [other EXCEPT !.fields = <<>>]
    /\ last' = Last("other.destroy", "")
    /\ UNCHANGED <<own, registry>>

(***************************************************************************)
(* The page: the user edits a field, a script removes an element or sets   *)
(* a custom validity message on one.                                       *)
(***************************************************************************)
\* element.setCustomValidity(message): a non-empty message when `on'.
setCustomValidity(name, on) ==
    /\ name \in present
    /\ (name \in customValidity) # on
    /\ customValidity' = IF on THEN customValidity \cup {name} ELSE customValidity \ {name}
    /\ last' = Last("setCustomValidity", name)
    /\ UNCHANGED <<present, value, fields, ui, cache>>

SetValue(name, dom) ==
    /\ name \in present
    /\ value[name] # dom
    /\ value' = [value EXCEPT ![name] = dom]
    /\ last' = Last("setValue", name)
    /\ UNCHANGED <<present, fields, ui, cache>>

RemoveElement(name) ==
    /\ name \in present
    /\ present' = present \ {name}
    /\ last' = Last("removeElement", name)
    /\ UNCHANGED <<value, fields, ui, cache>>

(***************************************************************************)
(* Spec: a FormGuard constructed on the form, and the calls made on it.    *)
(***************************************************************************)
\* A FormGuard constructed on another form, before any call on it.
NoInstance == [fields |-> <<>>, suppressAllWarnings |-> FALSE]

\* The module as loaded, and the second FormGuard.
loaded == registry = NoEntries /\ other = NoInstance

\* new FormGuard(form, cfg) on the form as the page loads it.
construct(cfg) ==
    /\ loaded
    /\ customValidity = {}
    /\ present = Elements
    /\ value = [f \in Elements |-> Dom(<<>>, FALSE, <<>>)]
    /\ fields = <<>>
    /\ ui = [f \in Elements |-> InitUi]
    /\ cache = [f \in Elements |-> NoValidity]
    /\ last = Last("new", "")
    /\ config = cfg
    /\ formListeners = liveListeners(cfg)
    /\ eventListeners = liveKeys(cfg)

InitGuard == construct(defaultConfig)

\* The form of Spec, SpecField, SpecFlags and SpecLifecycle: no element carries a
\* constraint attribute.
InitMachine == InitGuard /\ markup = [e \in Elements |-> NoMarkup]

NoCall == [kind |-> "none", fn |-> "", value |-> Undefined, param |-> Undefined,
           field |-> NoField]

Init == InitMachine /\ vArgs = NoCall /\ vRet = "none"

\* Spec: both fields are registered, each with at most one rule, and the form is
\* validated as a whole.
FormPool == {Rule("required", Undefined, NoValidator), Rule("minLength", Num(1), NoValidator)}
FormRuleLists == SeqsUpTo(FormPool, 1)

AddFieldOp ==
    \E name \in FieldNames, rules \in FormRuleLists :
        addField(name, rules) /\ UNCHANGED rest

ValidateOp == validate /\ UNCHANGED rest

SetValueOp ==
    \E name \in FieldNames : \E dom \in DomStates(name) :
        SetValue(name, dom) /\ UNCHANGED rest

RemoveElementOp ==
    \E name \in FieldNames : RemoveElement(name) /\ UNCHANGED rest

Next ==
    \/ AddFieldOp
    \/ ValidateOp
    \/ SetValueOp
    \/ RemoveElementOp

Spec == Init /\ [][Next]_vars

\* SpecField: one field, registered with rule lists of up to MaxRules rules, and
\* every validation entry point called on it.
TheField == "user"

AddRulesOp ==
    \E rules \in RuleLists : addField(TheField, rules) /\ UNCHANGED rest

ValidateFieldOp ==
    \E showUI \in BOOLEAN : validateField(TheField, showUI) /\ UNCHANGED rest

GetFieldValidityOp == GetFieldValidity(TheField) /\ UNCHANGED rest

EditOp ==
    \E dom \in DomStates(TheField) : SetValue(TheField, dom) /\ UNCHANGED rest

NextField ==
    \/ AddRulesOp
    \/ ValidateFieldOp
    \/ GetFieldValidityOp
    \/ ValidateOp
    \/ EditOp

SpecField == Init /\ [][NextField]_vars

\* SpecFlags: one field, registered with up to MaxFlagRules rules drawn from one
\* rule of every name, and read through getFieldValidity.
FlagPool ==
    {Rule("required", Undefined, NoValidator),
     Rule("email", Undefined, NoValidator),
     Rule("minLength", Num(2), NoValidator),
     Rule("maxLength", Num(1), NoValidator),
     Rule("min", Num(2), NoValidator),
     Rule("max", Num(1), NoValidator),
     Rule("pattern", Str(<<"a">>), NoValidator),
     Rule("url", Undefined, NoValidator),
     Rule("phone", Undefined, NoValidator),
     Rule("custom", Undefined, "reject")}
FlagRuleLists == SeqsUpTo(FlagPool, MaxFlagRules)
FlagValues == {<<>>, <<"a">>, <<"1">>, <<"a", "a">>}

\* The field is registered once.
AddFlagRulesOp ==
    /\ fields = <<>>
    /\ \E rules \in FlagRuleLists : addField(TheField, rules) /\ UNCHANGED rest

TypeOp ==
    \E s \in FlagValues :
        SetValue(TheField, Dom(s, FALSE, <<>>)) /\ UNCHANGED rest

NextFlags ==
    \/ AddFlagRulesOp
    \/ TypeOp
    \/ GetFieldValidityOp

SpecFlags == Init /\ [][NextFlags]_vars

\* SpecAgree: the field of SpecFlags, read through validateField as well as
\* through getFieldValidity.
NextAgree ==
    \/ AddFlagRulesOp
    \/ TypeOp
    \/ ValidateFieldOp
    \/ GetFieldValidityOp

SpecAgree == Init /\ [][NextAgree]_vars

\* SpecLifecycle: both fields, left empty and registered with at most one rule
\* each, every call made on either name whether or not it is registered or still
\* in the form, and the instance reconfigured and destroyed.
ValidateAnyFieldOp ==
    \E name \in FieldNames, showUI \in BOOLEAN :
        validateField(name, showUI) /\ UNCHANGED rest

GetAnyFieldValidityOp ==
    \E name \in FieldNames : GetFieldValidity(name) /\ UNCHANGED rest

SuppressWarningsOp ==
    \E suppress \in BOOLEAN :
        suppressWarnings(suppress)
            /\ UNCHANGED <<vArgs, vRet, markup, formListeners, eventListeners, registry, other,
                           customValidity>>

DestroyOp == destroy /\ UNCHANGED fixed

NextLifecycle ==
    \/ AddFieldOp
    \/ RemoveElementOp
    \/ ValidateAnyFieldOp
    \/ GetAnyFieldValidityOp
    \/ SuppressWarningsOp
    \/ DestroyOp

SpecLifecycle == Init /\ [][NextLifecycle]_vars

\* SpecSubmit: a FormGuard with live validation on; fields are registered once
\* each, with a rule their empty value fails or one it passes, submit handlers are
\* installed, an element is removed, the form is destroyed, and events arrive.
liveConfig == [defaultConfig EXCEPT !.validateOnChange = TRUE, !.validateOnBlur = TRUE]

InitSubmit ==
    /\ construct(liveConfig)
    /\ markup = [e \in Elements |-> NoMarkup]
    /\ vArgs = NoCall
    /\ vRet = "none"

SubmitRuleLists ==
    {<<Rule("required", Undefined, NoValidator)>>, <<Rule("minLength", Num(1), NoValidator)>>}

AddSubmitFieldOp ==
    \E name \in FieldNames, rules \in SubmitRuleLists :
        /\ ~Registered(name)
        /\ addField(name, rules)
        /\ UNCHANGED rest

SubmitHandlers == Len(SelectSeq(formListeners, LAMBDA l : l.type = "submit"))

OnSubmitOp ==
    /\ SubmitHandlers < MaxSubmitHandlers
    /\ onSubmit
    /\ UNCHANGED fixed

EnableAutoSubmitOp ==
    /\ SubmitHandlers < MaxSubmitHandlers
    /\ enableAutoSubmit
    /\ UNCHANGED fixed

SubmitEventOp == submitEvent /\ UNCHANGED fixed

FieldEventOp ==
    \E type \in {"input", "change", "blur"}, target \in FieldNames :
        fieldEvent(type, target) /\ UNCHANGED fixed

RemoveTheFieldOp == RemoveElement(TheField) /\ UNCHANGED rest

NextSubmit ==
    \/ AddSubmitFieldOp
    \/ OnSubmitOp
    \/ EnableAutoSubmitOp
    \/ SubmitEventOp
    \/ FieldEventOp
    \/ RemoveTheFieldOp
    \/ DestroyOp

SpecSubmit == InitSubmit /\ [][NextSubmit]_vars

\* SpecMarkup: the input "user" carries constraint attributes and the radio
\* buttons of "plan" are required; both names are registered, once each, with
\* declared rules that do or do not name the same rules as the markup.
MarkupOf(required, minlength, range, pattern, type) ==
    [a \in AttrNames |->
        CASE a = "required" -> required
          [] a = "minlength" -> minlength
          [] a \in {"maxlength", "min", "max"} -> range
          [] a = "pattern" -> pattern
          [] OTHER -> type]

UserMarkups ==
    {MarkupOf(r, m, g, p, t) :
        r \in {Null, Str(<<>>)},
        m \in {Null, Str(<<"2">>)},
        g \in {Null, Str(<<"2">>)},
        p \in {Null, Str(<<"a">>)},
        t \in {Null, Str(<<"e", "m", "a", "i", "l">>), Str(<<"u", "r", "l">>)}}

PlanMarkup == MarkupOf(Str(<<>>), Null, Null, Null, Str(<<"r", "a", "d", "i", "o">>))

MarkupPool == {Rule("minLength", Num(1), NoValidator), Rule("email", Undefined, NoValidator)}
MarkupRuleLists == SeqsUpTo(MarkupPool, MaxFlagRules)

InitMarkup ==
    /\ InitGuard
    /\ \E u \in UserMarkups :
           markup = [e \in Elements |->
                        CASE e = "user" -> u [] e = "plan" -> PlanMarkup [] OTHER -> NoMarkup]
    /\ vArgs = NoCall
    /\ vRet = "none"

AddMarkupFieldOp ==
    \E name \in {"user", "plan"}, rules \in MarkupRuleLists :
        /\ ~Registered(name)
        /\ addField(name, rules)
        /\ UNCHANGED rest

NextMarkup ==
    \/ AddMarkupFieldOp
    \/ SuppressWarningsOp

SpecMarkup == InitMarkup /\ [][NextMarkup]_vars

\* SpecRegistry: validators are registered under a new name and under "custom",
\* by this FormGuard and by the second one; the field is registered once, with
\* one rule, edited and validated.
RegistryNames == {"creditCard", "custom"}

RegistryPool ==
    {Rule("creditCard", Str(<<"a">>), NoValidator),
     Rule("custom", Str(<<"a">>), NoValidator),
     Rule("custom", Str(<<"a">>), "accept")}

RegistryValues == {Dom(<<>>, FALSE, <<>>), Dom(<<"a">>, FALSE, <<>>)}

AddRegistryFieldOp ==
    \E rule \in RegistryPool :
        /\ ~Registered(TheField)
        /\ addField(TheField, <<rule>>)
        /\ UNCHANGED rest

AddCustomValidatorOp ==
    \E name \in RegistryNames, pred \in Predicates :
        /\ addCustomValidator(name, pred)
        /\ UNCHANGED <<vArgs, vRet, config, markup, formListeners, eventListeners, other,
                       customValidity>>

TypeValueOp ==
    \E dom \in RegistryValues : SetValue(TheField, dom) /\ UNCHANGED rest

OtherAddFieldOp ==
    /\ other.fields = <<>>
    /\ otherAddField(TheField, <<Rule("creditCard", Undefined, NoValidator)>>)

OtherAddCustomValidatorOp ==
    \E name \in RegistryNames, pred \in Predicates :
        otherAddCustomValidator(name, pred)

OtherSuppressWarningsOp == \E suppress \in BOOLEAN : otherSuppressWarnings(suppress)

OtherDestroyOp == otherDestroy

NextRegistry ==
    \/ AddRegistryFieldOp
    \/ AddCustomValidatorOp
    \/ TypeValueOp
    \/ ValidateFieldOp
    \/ GetFieldValidityOp
    \/ ValidateOp
    \/ OtherAddFieldOp
    \/ OtherAddCustomValidatorOp
    \/ OtherSuppressWarningsOp
    \/ OtherDestroyOp

SpecRegistry == Init /\ [][NextRegistry]_vars

\* SpecNative: the field is registered with no rule or one, edited, given a
\* custom validity message or relieved of it, and validated.
NativeRuleLists ==
    {<<>>, <<Rule("required", Undefined, NoValidator)>>,
     <<Rule("minLength", Num(MaxNum), NoValidator)>>}

NativeValues == {Dom(<<>>, FALSE, <<>>), Dom(<<"a">>, FALSE, <<>>)}

AddNativeFieldOp ==
    \E rules \in NativeRuleLists : addField(TheField, rules) /\ UNCHANGED rest

TypeNativeOp ==
    \E dom \in NativeValues : SetValue(TheField, dom) /\ UNCHANGED rest

SetCustomValidityOp ==
    \E on \in BOOLEAN :
        /\ setCustomValidity(TheField, on)
        /\ UNCHANGED <<vArgs, vRet, config, markup, formListeners, eventListeners, registry,
                       other>>

NextNative ==
    \/ AddNativeFieldOp
    \/ TypeNativeOp
    \/ SetCustomValidityOp
    \/ ValidateFieldOp
    \/ GetFieldValidityOp
    \/ ValidateOp

SpecNative == Init /\ [][NextNative]_vars

\* SpecDisplay: a FormGuard with the default class names or with its own; the
\* field is registered with no rule or one, edited and validated.
ownClasses == [defaultConfig EXCEPT !.errorClass = "is-invalid", !.successClass = "is-valid"]

InitDisplay ==
    /\ \E cfg \in {defaultConfig, ownClasses} : construct(cfg)
    /\ markup = [e \in Elements |-> NoMarkup]
    /\ vArgs = NoCall
    /\ vRet = "none"

NextDisplay ==
    \/ AddNativeFieldOp
    \/ TypeNativeOp
    \/ ValidateFieldOp
    \/ ValidateOp

SpecDisplay == InitDisplay /\ [][NextDisplay]_vars

\* SpecPattern: the element of the field carries pattern="a" or no constraint
\* attribute; the field is registered once, with its rules declared or left to
\* the markup, edited and validated.
PatternMarkup == [NoMarkup EXCEPT !["pattern"] = Str(<<"a">>)]

PatternPool ==
    {Rule("pattern", Str(<<"a">>), NoValidator),
     Rule("required", Undefined, NoValidator),
     Rule("minLength", Num(MaxNum), NoValidator)}
PatternRuleLists == SeqsUpTo(PatternPool, MaxFlagRules)

InitPattern ==
    /\ InitGuard
    /\ \E m \in {NoMarkup, PatternMarkup} :
           markup = [e \in Elements |-> IF e = TheField THEN m ELSE NoMarkup]
    /\ vArgs = NoCall
    /\ vRet = "none"

AddPatternFieldOp ==
    /\ fields = <<>>
    /\ \E rules \in PatternRuleLists : addField(TheField, rules) /\ UNCHANGED rest

NextPattern ==
    \/ AddPatternFieldOp
    \/ EditOp
    \/ GetFieldValidityOp
    \/ ValidateOp

SpecPattern == InitPattern /\ [][NextPattern]_vars

\* SpecLive: a FormGuard constructed with each setting of validateOnChange and
\* validateOnBlur; fields are registered once each, the field is edited, and
\* input, change and blur events arrive from the named elements and from one
\* without a name.
InitLive ==
    /\ \E c \in BOOLEAN, b \in BOOLEAN :
           construct([defaultConfig EXCEPT !.validateOnChange = c, !.validateOnBlur = b])
    /\ markup = [e \in Elements |-> NoMarkup]
    /\ vArgs = NoCall
    /\ vRet = "none"

LiveEventOp ==
    \E type \in {"input", "change", "blur"}, target \in Elements \cup {""} :
        fieldEvent(type, target) /\ UNCHANGED fixed

NextLive ==
    \/ AddSubmitFieldOp
    \/ TypeNativeOp
    \/ LiveEventOp

SpecLive == InitLive /\ [][NextLive]_vars

\* SpecMessage: one direct call of createErrorMessage on each input, with the
\* default messages of a FormGuard.
MessageRuleNames == {"required", "minLength", "min", "unknown", "isPrototypeOf"}
ErrorMessages == {"", "Custom message"}

MessageInputs ==
    [kind : {"createErrorMessage"}, fn : MessageRuleNames, value : ErrorMessages,
     param : Params, field : FieldNames]

InitMessage == vArgs \in MessageInputs /\ vRet = "pending" /\ InitMachine

\* createErrorMessage({rule: fn, value: param, errorMessage: value}, field,
\* defaultErrorMessages)
ApplyCreateErrorMessage ==
    /\ vRet = "pending"
    /\ vRet' = "returned"
    /\ last' = [Last("createErrorMessage", vArgs.field) EXCEPT
                   !.rules = <<[Rule(vArgs.fn, vArgs.param, NoValidator) EXCEPT
                                   !.errorMessage = vArgs.value]>>,
                   !.message = createErrorMessage(
                                   [Rule(vArgs.fn, vArgs.param, NoValidator) EXCEPT
                                       !.errorMessage = vArgs.value],
                                   vArgs.field)]
    /\ UNCHANGED <<vArgs, present, value, fields, ui, cache, config, markup, formListeners,
                   eventListeners, registry, other, customValidity>>

NextMessage == ApplyCreateErrorMessage

SpecMessage == InitMessage /\ [][NextMessage]_vars

\* SpecV: one call of a validator or of validateRule on each input.
InitV == vArgs \in CallInputs /\ vRet = "pending" /\ InitMachine

NextV == ApplyValidator \/ ApplyValidateRule

SpecV == InitV /\ [][NextV]_vars

(***************************************************************************)
(* Properties of the validators, checked under SpecV.                      *)
(***************************************************************************)
Called(kind) == vArgs.kind = kind /\ vRet # "pending"

\* The values the validators are meant to treat as "nothing entered".
EmptyValues == {Null, Undefined, Str(<<>>), Arr(<<>>)}
EmptyPassing == {"email", "url", "phone", "minLength", "maxLength", "min", "max", "pattern"}

\* C5: each of email, url, phone, minLength, maxLength, min, max and pattern
\* returns true for null, undefined, "" and [], whatever its parameter.
C5_EmptyValuePasses ==
    (Called("validator") /\ vArgs.fn \in EmptyPassing /\ vArgs.value \in EmptyValues)
        => vRet = "true"

\* C7: required, called with a field, holds on a checkbox field iff the value is
\* exactly true, on an array value iff the array is non-empty, and in every other
\* case iff the value is none of null, undefined and "".
C7_RequiredByCase ==
    (Called("validator") /\ vArgs.fn = "required" /\ vArgs.field # NoField)
        => LET v == vArgs.value
               holds == vRet = "true"
           IN  /\ (vArgs.field = "checkbox" /\ ~IsArray(v)) => (holds <=> v = Bool(TRUE))
               /\ IsArray(v) => (holds <=> Len(v.a) > 0)
               /\ (vArgs.field # "checkbox" /\ ~IsArray(v))
                      => (holds <=> v \notin {Null, Undefined, Str(<<>>)})

\* A telephone number: an optional leading "+", then digits, spaces, hyphens and
\* parentheses holding between 10 and 15 digits.
PhoneNumber(s) ==
    LET body == IF s # <<>> /\ Head(s) = "+" THEN Tail(s) ELSE s
        digits == Filter(body, Digits)
    IN  /\ Chars(body) \subseteq Digits \cup {" ", "-", "(", ")"}
        /\ Len(digits) >= 10
        /\ Len(digits) <= 15

\* C8: phone accepts a non-empty string iff it is a telephone number of 10 to 15
\* digits; a shorter run of digits such as "123" is rejected.
C8_PhoneDigitCount ==
    (Called("validator") /\ vArgs.fn = "phone" /\ vArgs.value.t = "string"
        /\ vArgs.value.s # <<>>)
        => (vRet = "true" <=> PhoneNumber(vArgs.value.s))

\* C9: validateRule never raises, and for a rule whose name is not one of the
\* registry's validators it returns true for every value.
C9_ValidateRuleFailsOpen ==
    Called("validateRule")
        => /\ vRet # "throws"
           /\ vArgs.fn \notin validatorsRegistry => vRet = "true"

(***************************************************************************)
(* Properties of validate(), checked under Spec.                           *)
(***************************************************************************)
\* C3: validate() never throws, in any state the form can be brought to, an
\* element removed after its registration included.
C3_ValidateNeverThrows == last.op = "validate" => ~last.threw

\* C4: validate() called twice in a row, nothing changing in between, returns the
\* same isValid and the same errors in the same order (and throws both times or
\* neither).
C4_ValidateRepeats ==
    [][(last.op = "validate" /\ last'.op = "validate")
          => /\ last'.threw = last.threw
             /\ last'.ret = last.ret
             /\ last'.errors = last.errors]_vars

\* A second validate() in a row, reporting errors for both fields.
C4_Witness ==
    /\ last.op = "validate"
    /\ last.again
    /\ ~last.threw
    /\ Len(last.errors) = Cardinality(FieldNames)

\* "" (a text input, or a numeric input without a number) and [].
IsEmptyValue(v) == v \in {Str(<<>>), Arr(<<>>)}
HasRule(name, r) == \E i \in 1..Len(RulesOf(name)) : RulesOf(name)[i].rule = r
ErrorFields == {last.errors[i].field : i \in 1..Len(last.errors)}

\* C6: after validate(), a field without a required rule whose value is empty
\* has no error, and a form of such fields only is valid.
C6_EmptyOptionalFieldValid ==
    (last.op = "validate" /\ ~last.threw)
        => LET optionalEmpty ==
                   {f \in FieldNames :
                        /\ Registered(f)
                        /\ ~HasRule(f, "required")
                        /\ IsEmptyValue(getFieldValue(f))}
           IN  /\ optionalEmpty \cap ErrorFields = {}
               /\ (\A i \in 1..Len(fields) : fields[i].name \in optionalEmpty) => last.ret

(***************************************************************************)
(* Properties of one field's rule list, checked under SpecField.           *)
(***************************************************************************)
\* The rules of the field of the last call, its value, and the rules that fail.
LastRules == RulesOf(last.field)
LastValue == getFieldValue(last.field)
Failing(name) ==
    {i \in 1..Len(RulesOf(name)) :
         isValid(name, getFieldValue(name), RulesOf(name)[i]) = "false"}
FirstFailing(name) == CHOOSE i \in Failing(name) : \A j \in Failing(name) : i <= j
OnRegisteredField(op) ==
    last.op = op /\ Registered(last.field) /\ last.field \in present /\ ~last.threw

\* C1: validateField on a field with a failing rule returns false, has evaluated
\* the rules up to the first failing one in order and none after it, and with
\* showUI displays the message of that rule.
C1_StopsAtFirstFailure ==
    (OnRegisteredField("validateField") /\ Failing(last.field) # {})
        => LET k == FirstFailing(last.field)
           IN  /\ last.ret = FALSE
               /\ last.firstErrorRule = k
               /\ Len(last.evaluated) = k
               /\ \A i \in 1..k : last.evaluated[i].idx = i
               /\ last.showUI
                      => /\ ui[last.field].text = createErrorMessage(LastRules[k], last.field)
                         /\ ui[last.field].display = "block"

\* validateField(name, true) on rules <<A, B, ...>> where A and B both fail.
C1_Witness ==
    /\ OnRegisteredField("validateField")
    /\ last.showUI
    /\ {1, 2} \subseteq Failing(last.field)
    /\ Len(last.evaluated) = 1
    /\ ui[last.field].text = createErrorMessage(LastRules[1], last.field)

\* The errors validate() should report: one per registered field with a failing
\* rule, in registration order, naming the field and its first failing rule.
NamedErrors == [i \in 1..Len(last.errors) |-> <<last.errors[i].field, last.errors[i].rule>>]
ExpectedErrors ==
    LET invalid == SelectSeq(fields, LAMBDA e : Failing(e.name) # {})
    IN  [i \in 1..Len(invalid) |->
            <<invalid[i].name, invalid[i].rules[FirstFailing(invalid[i].name)].rule>>]

\* C2: validate() reports exactly one error per invalid field, each naming the
\* first violated rule of its field, and isValid is true iff there is no error.
C2_ErrorNamesFirstViolatedRule ==
    (last.op = "validate" /\ ~last.threw)
        => /\ NamedErrors = ExpectedErrors
           /\ last.ret = (last.errors = <<>>)

\* C10 as stated: whatever its name, a rule carrying a customValidator is
\* evaluated by that predicate, in validateField and in getFieldValidity.
C10_AnyRuleUsesCustomValidator ==
    ((OnRegisteredField("validateField") \/ OnRegisteredField("getFieldValidity")))
        => \A i \in 1..Len(last.evaluated) :
               LET rule == LastRules[last.evaluated[i].idx]
               IN  rule.customValidator # NoValidator
                       => last.evaluated[i].outcome = CallCustom(rule.customValidator, LastValue)

\* C10 amended: a rule named "custom" that carries a customValidator is evaluated
\* by that predicate and not by the registry; a rule of any other name is
\* evaluated by the registry, customValidator or not.
C10_CustomRuleUsesCustomValidator ==
    ((OnRegisteredField("validateField") \/ OnRegisteredField("getFieldValidity")))
        => \A i \in 1..Len(last.evaluated) :
               LET rule == LastRules[last.evaluated[i].idx]
               IN  last.evaluated[i].outcome =
                       IF rule.rule = "custom" /\ rule.customValidator # NoValidator
                       THEN CallCustom(rule.customValidator, LastValue)
                       ELSE validateRule(ElType(last.field), LastValue, rule)

\* validateField has evaluated a "custom" rule by its predicate, which rejects
\* what the registry would let pass, after a rule of another name whose
\* predicate accepts what the registry lets pass.
C10_Witness ==
    /\ OnRegisteredField("validateField")
    /\ \E i \in 1..Len(last.evaluated) :
           LET rule == LastRules[last.evaluated[i].idx]
           IN  /\ rule.rule = "custom"
               /\ rule.customValidator # NoValidator
               /\ last.evaluated[i].outcome = "false"
               /\ validateRule(ElType(last.field), LastValue, rule) = "true"
    /\ \E i \in 1..Len(last.evaluated) :
           LET rule == LastRules[last.evaluated[i].idx]
           IN  rule.rule # "custom" /\ rule.customValidator # NoValidator

(***************************************************************************)
(* Properties of getFieldValidity, checked under SpecFlags and SpecField.  *)
(***************************************************************************)
\* The flags a failing rule of a given name is to set: its own Mismatch flag and
\* the native-style flag of its name, if it has one.
FlagsOfRule(ruleName) ==
    {ruleName \o "Mismatch"}
        \cup (CASE ruleName = "required" -> {"valueMissing"}
                [] ruleName = "email" -> {"typeMismatch"}
                [] ruleName = "url" -> {"typeMismatch"}
                [] ruleName = "minLength" -> {"tooShort"}
                [] ruleName = "maxLength" -> {"tooLong"}
                [] ruleName = "min" -> {"rangeUnderflow"}
                [] ruleName = "max" -> {"rangeOverflow"}
                [] ruleName = "pattern" -> {"patternMismatch"}
                [] ruleName = "phone" -> {"customError"}
                [] OTHER -> {})

C12_UnregisteredIsNative ==
    (last.op = "getFieldValidity" /\ ~last.threw /\ ~Registered(last.field))
        => /\ last.validity.valid = nativeValidity(last.field).valid
           /\ last.validity.flags = nativeValidity(last.field).flags

(***************************************************************************)
(* Properties of calls on names that are absent or not registered, checked *)
(* under SpecLifecycle.                                                    *)
(***************************************************************************)
\* C13: addField and getFieldValidity throw when the form has no element of the
\* name, and the call leaves the map of registered fields, with every rule list
\* in it, as it was.
C13_AbsentElementThrows ==
    [][(last'.op \in {"addField", "getFieldValidity"} /\ last'.field \notin present)
          => (last'.threw /\ fields' = fields)]_vars

\* addField has thrown for a name whose element is gone, with a field registered
\* with a rule before the call.
C13_Witness ==
    /\ last.op = "addField"
    /\ last.threw
    /\ last.field \notin present
    /\ \E i \in 1..Len(fields) : fields[i].rules # <<>>

\* C15 as stated: validateField for a name that is not registered returns true,
\* emits a warning, evaluates no rule and changes no error display, whether or
\* not the form has an element of the name.
C15_NotAddedWarns ==
    [][(last'.op = "validateField" /\ ~Registered(last'.field))
          => /\ last'.ret
             /\ last'.warnings = {"notAdded"}
             /\ last'.evaluated = <<>>
             /\ ui' = ui]_vars

\* C15 amended: validateField for a name that is not registered returns true,
\* evaluates no rule and changes no error display, whether or not the form has
\* an element of the name; it emits a warning unless warnings are suppressed
\* (suppressAllWarnings, set by the config or by suppressWarnings).
C15_NotAddedIsValid ==
    [][(last'.op = "validateField" /\ ~Registered(last'.field))
          => /\ last'.ret
             /\ last'.warnings = (IF config.suppressAllWarnings THEN {} ELSE {"notAdded"})
             /\ last'.evaluated = <<>>
             /\ ui' = ui]_vars

\* validateField(name, true) has returned true with a warning for a name that
\* was registered and then removed by destroy, which cleared its container.
C15_Witness ==
    /\ last.op = "validateField"
    /\ last.showUI
    /\ ~Registered(last.field)
    /\ last.ret
    /\ last.warnings = {"notAdded"}
    /\ last.field \in present
    /\ fields = <<>>
    /\ ui[last.field].display = "none"

(***************************************************************************)
(* Properties of addField and the markup, checked under SpecMarkup.        *)
(***************************************************************************)
\* The rule names of the constraint attributes present on the element(s) of a
\* name, in the order required, minlength, maxlength, min, max, pattern, type.
AttrRuleNames(name) ==
    SelectSeq(<<"required", "minLength", "maxLength", "min", "max", "pattern", "email", "url">>,
              LAMBDA r :
                  CASE r = "required" -> markup[name]["required"] # Null
                    [] r = "minLength" -> markup[name]["minlength"] # Null
                    [] r = "maxLength" -> markup[name]["maxlength"] # Null
                    [] r = "min" -> markup[name]["min"] # Null
                    [] r = "max" -> markup[name]["max"] # Null
                    [] r = "pattern" -> markup[name]["pattern"] # Null
                    [] r = "email" -> markup[name]["type"] = Str(<<"e", "m", "a", "i", "l">>)
                    [] OTHER -> markup[name]["type"] = Str(<<"u", "r", "l">>))

RuleNamesOf(rules) == [i \in 1..Len(rules) |-> rules[i].rule]

\* C14: after addField(name, rules) on a name of the form, the stored list is
\* the declared rules in their order, followed by one rule for each constraint
\* attribute present in the markup whose rule name is not declared.
C14_StoredRulesMergeMarkup ==
    (last.op = "addField" /\ last.field \in present)
        => /\ ~last.threw
           /\ Registered(last.field)
           /\ SubSeq(RulesOf(last.field), 1, Len(last.rules)) = last.rules
           /\ RuleNamesOf(RulesOf(last.field)) =
                  RuleNamesOf(last.rules)
                      \o SelectSeq(AttrRuleNames(last.field),
                                   LAMBDA r : \A i \in 1..Len(last.rules) :
                                                  last.rules[i].rule # r)

(***************************************************************************)
(* Properties of the submit handlers and of destroy, checked under         *)
(* SpecSubmit.                                                             *)
(***************************************************************************)
\* The handlers of one kind listening for submit on the form.
SubmitHandlersOf(kind) ==
    {formListeners[i].handler : i \in {j \in 1..Len(formListeners) :
        formListeners[j].type = "submit" /\ formListeners[j].handler.kind = kind}}

\* What one handler did during the last event.
HandlerLog(h) == SelectSeq(last.log, LAMBDA e : e.handler = h.id)

\* C16: at every submit event each handler installed by onSubmit prevents the
\* default action, runs validate() and invokes the callback with the result of
\* that validation, valid or invalid, in this order.
C16_OnSubmitInvokesCallback ==
    last.op = "submit"
        => \A h \in SubmitHandlersOf("onSubmit") :
               /\ last.prevented
               /\ \E r \in {"true", "false"} :
                      HandlerLog(h) = <<Step(h, "preventDefault", "", ""),
                                        Step(h, "validate", r, ""),
                                        Step(h, "callback", r, "")>>

\* The registered fields whose element is in the form and whose value fails a rule.
FailingFields ==
    {fields[i].name : i \in {j \in 1..Len(fields) :
        fields[j].name \in present /\ Failing(fields[j].name) # {}}}

AllFieldsPresent == \A i \in 1..Len(fields) : fields[i].name \in present

\* The display validateField(name, true) leaves for a field.
ShownBy(name) ==
    IF Failing(name) = {}
    THEN ui[name].display = "none" /\ ui[name].text = NoMessage
    ELSE /\ ui[name].display = "block"
         /\ ui[name].text = createErrorMessage(RulesOf(name)[FirstFailing(name)], name)

\* C17: at a submit event a handler installed by enableAutoSubmit runs validate();
\* when validate() returns isValid = false it prevents the default action and
\* calls validateField(name, true) for every registered field in order, which
\* leaves each field's error display up to date; otherwise it does nothing more,
\* and with no other handler the default action is not prevented.
C17_AutoSubmitBlocksOnlyInvalid ==
    last.op = "submit"
        => /\ \A h \in SubmitHandlersOf("auto") :
                  /\ HandlerLog(h) # <<>>
                  /\ HandlerLog(h)[1].call = "validate"
                  /\ AllFieldsPresent
                         => HandlerLog(h)[1].result = Returned(FailingFields = {})
                  /\ HandlerLog(h)[1].result = "false"
                         => /\ last.prevented
                            /\ Len(HandlerLog(h)) = 2 + Len(fields)
                            /\ HandlerLog(h)[2].call = "preventDefault"
                            /\ \A i \in 1..Len(fields) :
                                   /\ HandlerLog(h)[2 + i].call = "validateField"
                                   /\ HandlerLog(h)[2 + i].field = fields[i].name
                            /\ last.log[Len(last.log)].handler = h.id
                                   => \A i \in 1..Len(fields) : ShownBy(fields[i].name)
                  /\ HandlerLog(h)[1].result # "false" => Len(HandlerLog(h)) = 1
           /\ (SubmitHandlersOf("onSubmit") = {} /\ FailingFields = {}) => ~last.prevented

C17_Witness ==
    /\ last.op = "submit"
    /\ SubmitHandlersOf("auto") # {}
    /\ SubmitHandlersOf("onSubmit") = {}
    /\ last.prevented
    /\ Len(fields) = 2
    /\ Cardinality(FailingFields) = 1
    /\ \E f \in FailingFields : ui[f].display = "block"

\* C18: after destroy() no listener the FormGuard installed is left on the form
\* and no element of the form carries a validity cache.
C18_DestroyDetachesEveryListener ==
    last.op = "destroy"
        => /\ formListeners = <<>>
           /\ \A f \in present : cache[f] = NoValidity

(***************************************************************************)
(* Properties of the registry, checked under SpecRegistry.                 *)
(***************************************************************************)
CarriesPredicate(rule) == rule.rule = "custom" /\ rule.customValidator # NoValidator

\* C19 as stated: once a predicate is registered under a name, a rule of that
\* name has the outcome the predicate gives for the field's value and the rule's
\* parameter, in validateField and in getFieldValidity; the predicate is the one
\* registered last.
C19_RegisteredPredicateDecides ==
    ((OnRegisteredField("validateField") \/ OnRegisteredField("getFieldValidity")))
        => \A i \in 1..Len(last.evaluated) :
               LastRules[last.evaluated[i].idx].rule \in DOMAIN registry
                   => last.evaluated[i].outcome =
                          CallPredicate(registry[LastRules[last.evaluated[i].idx].rule],
                                        LastValue,
                                        LastRules[last.evaluated[i].idx].value,
                                        ElType(last.field))

\* C19 amended: a rule evaluated by validateField or getFieldValidity whose name
\* has a registered predicate has the outcome the predicate registered last gives
\* for the field's value and the rule's parameter, unless the rule is named
\* "custom" and carries a customValidator: then its outcome is that of the
\* customValidator.
C19_RegisteredPredicateDecidesUnlessInline ==
    ((OnRegisteredField("validateField") \/ OnRegisteredField("getFieldValidity")))
        => \A i \in 1..Len(last.evaluated) :
               /\ CarriesPredicate(LastRules[last.evaluated[i].idx])
                      => last.evaluated[i].outcome =
                             CallCustom(LastRules[last.evaluated[i].idx].customValidator,
                                        LastValue)
               /\ (/\ ~CarriesPredicate(LastRules[last.evaluated[i].idx])
                   /\ LastRules[last.evaluated[i].idx].rule \in DOMAIN registry)
                      => last.evaluated[i].outcome =
                             CallPredicate(registry[LastRules[last.evaluated[i].idx].rule],
                                           LastValue,
                                           LastRules[last.evaluated[i].idx].value,
                                           ElType(last.field))

\* validateField has evaluated a "creditCard" rule by the registered predicate
\* that compares value and parameter, on a value equal to the parameter.
C19_Witness ==
    /\ OnRegisteredField("validateField")
    /\ Len(last.evaluated) = 1
    /\ LastRules[1].rule = "creditCard"
    /\ "creditCard" \in DOMAIN registry
    /\ registry["creditCard"] = "matches"
    /\ LastValue = LastRules[1].value
    /\ last.evaluated[1].outcome = "true"
    /\ last.ret

\* What validateField, getFieldValidity and validate() return on this FormGuard
\* in the current state.
ResultsHere ==
    <<IF Registered(TheField) /\ TheField \in present
      THEN RunRules(TheField, getFieldValue(TheField), RulesOf(TheField), 1, NoRun).isValid
      ELSE TRUE,
      getFieldValidity(TheField).validity,
      runResult(validateIn(NoEvent))>>

\* C20: no call on the second FormGuard (addField, addCustomValidator,
\* suppressWarnings, destroy) changes what validateField, getFieldValidity or
\* validate() return on this one.
C20_InstancesIndependent ==
    [][last'.op \in {"other.addField", "other.addCustomValidator",
                     "other.suppressWarnings", "other.destroy"}
           => ResultsHere' = ResultsHere]_vars

(***************************************************************************)
(* Properties of the registry's contents, checked under SpecV.             *)
(***************************************************************************)
\* C21: every documented rule name (numeric, integer, alphanumeric, arrayMin,
\* arrayMax, equalTo, beside the nine others) is a key of the registry, and
\* validateRule applies the rule: numeric and alphanumeric reject a string that
\* holds a character which is neither a digit nor a letter, numeric a letter too.
C21_RegistryHoldsEveryDocumentedRule ==
    (Called("validateRule") /\ vArgs.fn \in DocumentedRules)
        => /\ vArgs.fn \in validatorsRegistry
           /\ (/\ vArgs.fn \in {"numeric", "alphanumeric"}
               /\ vArgs.value.t = "string"
               /\ \E i \in 1..Len(vArgs.value.s) : vArgs.value.s[i] = "+")
                  => vRet = "false"

(***************************************************************************)
(* Properties of createErrorMessage, checked under SpecMessage.            *)
(***************************************************************************)
\* C22: createErrorMessage returns the rule's errorMessage when it is set;
\* otherwise the default message of the rule's name, in which {value} stands for
\* the rule's parameter whenever that is a number or a string, the number 0
\* included; otherwise the fallback text naming the field and the rule.
C22_MessageCarriesParameter ==
    last.op = "createErrorMessage"
        => IF last.rules[1].errorMessage # ""
           THEN last.message = [NoMessage EXCEPT !.from = "rule",
                                                 !.text = last.rules[1].errorMessage]
           ELSE IF last.rules[1].rule \in defaultErrorMessages
           THEN /\ last.message.from = "default"
                /\ last.message.rule = last.rules[1].rule
                /\ (/\ last.rules[1].rule \in HasPlaceholder
                    /\ last.rules[1].value.t \in {"number", "string"})
                       => last.message.arg = ToStr(last.rules[1].value)
           ELSE last.message = [NoMessage EXCEPT !.from = "fallback",
                                                 !.rule = last.rules[1].rule,
                                                 !.field = last.field]

(***************************************************************************)
(* Properties of the native constraint state, checked under SpecNative.    *)
(***************************************************************************)
\* C23: for a registered field, getFieldValidity returns valid exactly when no
\* rule of the field fails and the element's native validity is valid.
C23_ValidCombinesRulesAndNative ==
    OnRegisteredField("getFieldValidity")
        => last.validity.valid =
               (Failing(last.field) = {} /\ nativeValidity(last.field).valid)

(***************************************************************************)
(* Properties of the error display, checked under SpecDisplay.             *)
(***************************************************************************)
\* The container and the element of a field show an error: both carry the
\* configured error class and the container holds a message.
ShowsError(name) ==
    /\ errorClass \in ui[name].classes
    /\ errorClass \in ui[name].fieldClasses
    /\ ui[name].text # NoMessage

\* Neither carries the configured error class and the container is empty.
ShowsNoError(name) ==
    /\ errorClass \notin ui[name].classes
    /\ errorClass \notin ui[name].fieldClasses
    /\ ui[name].text = NoMessage

\* C24: after validate(), and after validateField(name, true) for its field, a
\* registered field shows an error if it is invalid and none if it is valid,
\* whatever it showed before and whatever class names are configured.
C24_DisplayFollowsValidity ==
    /\ (last.op = "validate" /\ ~last.threw)
           => \A i \in 1..Len(fields) :
                  IF Failing(fields[i].name) # {} THEN ShowsError(fields[i].name)
                  ELSE ShowsNoError(fields[i].name)
    /\ (OnRegisteredField("validateField") /\ last.showUI)
           => IF Failing(last.field) # {} THEN ShowsError(last.field)
              ELSE ShowsNoError(last.field)

(***************************************************************************)
(* Results as functions of the current state, checked under SpecNative.    *)
(***************************************************************************)
\* The flags the element's own constraint state sets.
NativeFlags(name) == IF name \in customValidity THEN {"customError"} ELSE {}

\* The registered fields with a failing rule, in the order of registration.
InvalidFields ==
    SelectSeq([i \in 1..Len(fields) |-> fields[i].name], LAMBDA f : Failing(f) # {})

\* C25: what validateField, getFieldValidity and validate() return is determined
\* by the field values, the native validity, the stored rules and the registry
\* at the time of the call: the verdict is that of the rules on the current
\* value, the flags are the native ones and those of the rules failing now, and
\* the errors are those of the fields invalid now, whatever was returned, cached
\* or displayed before.
C25_ResultsFollowCurrentState ==
    /\ OnRegisteredField("validateField") => last.ret = (Failing(last.field) = {})
    /\ OnRegisteredField("getFieldValidity")
           => /\ last.validity.valid = (Failing(last.field) = {})
              /\ last.validity.flags =
                     NativeFlags(last.field)
                         \cup UNION {FlagsOfRule(LastRules[i].rule) : i \in Failing(last.field)}
    /\ (last.op = "validate" /\ ~last.threw)
           => /\ last.ret = (InvalidFields = <<>>)
              /\ [i \in 1..Len(last.errors) |-> last.errors[i].field] = InvalidFields

\* validateField returns true for a field whose cached validity, left by an
\* earlier pass on another value, is invalid, and whose container still shows
\* the error of that pass.
C25_Witness ==
    /\ OnRegisteredField("validateField")
    /\ last.ret
    /\ ~last.showUI
    /\ LastRules # <<>>
    /\ ~cache[last.field].valid
    /\ ui[last.field].display = "block"

(***************************************************************************)
(* Properties of listener registration, checked under SpecSubmit.          *)
(***************************************************************************)
AttachedHandlers == {formListeners[i].handler : i \in 1..Len(formListeners)}
TrackedHandlers == {eventListeners[i].handler : i \in 1..Len(eventListeners)}

\* The handlers of one kind that validated during the last event.
RanValidate(kind) ==
    {h \in SubmitHandlersOf(kind) :
        \E i \in 1..Len(last.log) :
            last.log[i].handler = h.id /\ last.log[i].call = "validate"}

\* C26: whatever the number of onSubmit and enableAutoSubmit calls, the form
\* carries at most one handler of each kind, the handlers in eventListeners are
\* the handlers attached to the form, and a submit event runs at most one
\* handler of each kind.
C26_OneHandlerPerKind ==
    /\ Cardinality(SubmitHandlersOf("onSubmit")) <= 1
    /\ Cardinality(SubmitHandlersOf("auto")) <= 1
    /\ TrackedHandlers = AttachedHandlers
    /\ last.op = "submit"
           => /\ Cardinality(RanValidate("onSubmit")) <= 1
              /\ Cardinality(RanValidate("auto")) <= 1

(***************************************************************************)
(* Properties of live validation, checked under SpecLive.                  *)
(***************************************************************************)
\* The toggle that installs the handler of an event type.
LiveEnabled(type) ==
    IF type = "blur" THEN config.validateOnBlur ELSE config.validateOnChange

\* C27: an input or change event with validateOnChange set at construction, or a
\* blur event with validateOnBlur set, whose target is a registered field runs
\* validateField(target, true) once, for that field only, and leaves its error
\* display up to date; an event of a type whose toggle is off, or whose target
\* has no name or is not registered, runs no validation.
C27_LiveValidatesTheTarget ==
    last.op \in {"input", "change", "blur"}
        => IF LiveEnabled(last.op) /\ last.field # "" /\ Registered(last.field)
           THEN /\ Len(last.log) = 1
                /\ last.log[1].call = "validateField"
                /\ last.log[1].field = last.field
                /\ last.log[1].result = Returned(Failing(last.field) = {})
                /\ ShownBy(last.field)
           ELSE last.log = <<>>

\* A blur event, with validateOnBlur set and validateOnChange not, on a field
\* that fails its rule while a second field is registered: the target alone is
\* validated and shows its error.
C27_Witness ==
    /\ last.op = "blur"
    /\ config.validateOnBlur
    /\ ~config.validateOnChange
    /\ Len(fields) = 2
    /\ Registered(last.field)
    /\ Len(last.log) = 1
    /\ last.log[1].result = "false"
    /\ ui[last.field].display = "block"

(***************************************************************************)
(* The short-circuit loop against the full one, checked under SpecAgree.   *)
(***************************************************************************)
\* C28: for a registered field whose element is in the form, validateField
\* returns what getFieldValidity gives as valid for the same value and rules,
\* and getFieldValidity gives as valid what validateField returns.
C28_ShortCircuitAgreesWithFull ==
    /\ OnRegisteredField("validateField")
           => /\ ~getFieldValidity(last.field).threw
              /\ last.ret = getFieldValidity(last.field).validity.valid
    /\ OnRegisteredField("getFieldValidity")
           => /\ ~RunRules(last.field, LastValue, LastRules, 1, NoRun).threw
              /\ last.validity.valid = RunRules(last.field, LastValue, LastRules, 1, NoRun).isValid

\* validateField has stopped at the first of two rules that both fail.
C28_Witness ==
    /\ OnRegisteredField("validateField")
    /\ ~last.ret
    /\ Len(LastRules) = 2
    /\ Len(last.evaluated) = 1
    /\ Cardinality(Failing(last.field)) = 2

(***************************************************************************)
(* The rule validate() reports, checked under SpecField.                   *)
(***************************************************************************)
\* C29: for every field validate() reports, the message it puts in the error and
\* the message it displays are those of the first failing rule of the field in
\* declaration order, the rule at which validateField stops, also when the
\* field has two rules of one name with different parameters.
C29_ReportedRuleIsFirstFailing ==
    (last.op = "validate" /\ ~last.threw)
        => \A i \in 1..Len(last.errors) :
               /\ Failing(last.errors[i].field) # {}
               /\ last.errors[i].message
                      = createErrorMessage(
                            RulesOf(last.errors[i].field)[FirstFailing(last.errors[i].field)],
                            last.errors[i].field)
               /\ ui[last.errors[i].field].text = last.errors[i].message

(***************************************************************************)
(* The validity object and its Mismatch flags, checked under SpecPattern.  *)
(***************************************************************************)
\* The registered fields whose element is in the form and that getFieldValidity
\* gives as not valid.
NotValidFields ==
    {fields[i].name : i \in {j \in 1..Len(fields) :
        fields[j].name \in present /\ ~getFieldValidity(fields[j].name).validity.valid}}

\* C30: the Validity getFieldValidity returns for a registered field has valid
\* false iff the <ruleName>Mismatch flag of some rule of the field's stored list
\* is true; so validate() reports an error for every field that is not valid,
\* and returns isValid true only when every registered field is valid.
C30_ValidIffAMismatchFlag ==
    /\ OnRegisteredField("getFieldValidity")
           => (~last.validity.valid)
                  = (\E i \in 1..Len(LastRules) :
                         mismatchFlag(LastRules[i]) \in last.validity.flags)
    /\ (last.op = "validate" /\ ~last.threw)
           => /\ NotValidFields \subseteq ErrorFields
              /\ last.ret => NotValidFields = {}

====
